---- MODULE Spec2Model ----
(***************************************************************************)
(* Model of the MQTT <-> chat-completion bridge of                         *)
(* computerb/mqtt_client/src/main.rs.                                      *)
(*                                                                         *)
(* A Rust String is modelled as the sequence of its UTF-8 bytes (integers  *)
(* 0..255), so that byte lengths, byte slicing and character boundaries    *)
(* are computed the way the code computes them.                            *)
(*                                                                         *)
(* The steady-state loop is cut at its suspension points: the poll of the  *)
(* broker event loop, the await of the completion call, the await of the   *)
(* outbound publish and the sleep after a broker error.  Every action is   *)
(* the code that runs between two suspension points.                       *)
(***************************************************************************)
EXTENDS Integers, Sequences, FiniteSets, TLC

VARIABLES
    pc,                    \* position of the loop: "poll" | "api" | "publish" | "sleep" | "panicked"
    conversation_history,  \* the VecDeque<ChatCompletionMessage> of main
    events,                \* inbound publishes the broker has delivered and poll has not returned yet
    messages,              \* the Vec handed to the completion call in flight
    inflight,              \* completion calls issued and not yet returned
    pubPending,            \* outbound publish calls issued and not yet returned
    requests,              \* the request channel from the client handle to the broker event loop
    appended,              \* history variable: every message ever pushed, in push order
    iter,                  \* history variable: facts about the latest inbound-topic iteration
    polled,                \* the event the poll of the running iteration returned
    t_pc, t_msg, t_max, t_out,  \* harness applying truncate_message to one drawn input
    a_pc, a_resp, a_out,        \* harness applying call_openai_api to one drawn response
    s_pc, env, cfg, setup       \* startup of main: position, environment, values read, effects

vars == <<pc, conversation_history, events, messages, inflight, pubPending,
          requests, appended, iter, polled, t_pc, t_msg, t_max, t_out,
          a_pc, a_resp, a_out, s_pc, env, cfg, setup>>

loopVars == <<pc, conversation_history, events, messages, inflight, pubPending,
              requests, appended, iter, polled>>

truncVars == <<t_pc, t_msg, t_max, t_out>>

apiVars == <<a_pc, a_resp, a_out>>

startVars == <<s_pc, env, cfg, setup>>

\* what the loop leaves alone
otherVars == <<truncVars, apiVars, startVars>>

-----------------------------------------------------------------------------
(* Program constants *)

MAX_CONVERSATION_HISTORY == 10

MAX_MESSAGE_LENGTH == 500

subscribe_topic == "/esp_gpt_out"

publish_topic == "/client_gpt"

\* AsyncClient::new(mqttoptions, 10): capacity of the request channel
RequestCap == 10

(* Bounds of the model *)

\* pushes onto the history in one behaviour
MaxAppends == 12

\* inbound publishes waiting in the broker event loop
MaxPending == 1

\* only the first MaxLong pushes of a behaviour may be of texts longer than
\* MAX_MESSAGE_LENGTH (such a text that makes truncate_message panic is
\* never pushed and may come at any time)
MaxLong == 2

\* characters of a string drawn for the truncate_message harness
MaxChars == 4

\* largest max_len drawn for the truncate_message harness
MaxBound == 12

\* choices in a response drawn for the call_openai_api harness
MaxChoices == 3

\* inbound-topic publishes of one burst
MaxBurst == 11

-----------------------------------------------------------------------------
(* Byte strings *)

Rep(b, n) == [i \in 1..n |-> b]

Min(a, b) == IF a <= b THEN a ELSE b

Last(s) == s[Len(s)]

\* "..."
Ellipsis == <<46, 46, 46>>

\* U+FFFD REPLACEMENT CHARACTER in UTF-8
REPLACEMENT == <<239, 191, 189>>

IsCont(b) == b >= 128 /\ b <= 191

\* str::is_char_boundary: index 0 and index len are boundaries, an index past
\* the end is not, and otherwise the byte at the index must not be a
\* continuation byte ((b as i8) >= -0x40).
is_char_boundary(s, index) ==
    IF index = 0 THEN TRUE
    ELSE IF index >= Len(s) THEN index = Len(s)
    ELSE ~IsCont(s[index + 1])

\* Range allowed for the second byte of a multi-byte sequence led by b.
SecondOk(b, c) ==
    IF b = 224 THEN c >= 160 /\ c <= 191
    ELSE IF b = 237 THEN c >= 128 /\ c <= 159
    ELSE IF b = 240 THEN c >= 144 /\ c <= 191
    ELSE IF b = 244 THEN c >= 128 /\ c <= 143
    ELSE IsCont(c)

\* Width of the sequence a lead byte announces (0: not a lead byte).
Utf8Width(b) ==
    IF b < 128 THEN 1
    ELSE IF b >= 194 /\ b <= 223 THEN 2
    ELSE IF b >= 224 /\ b <= 239 THEN 3
    ELSE IF b >= 240 /\ b <= 244 THEN 4
    ELSE 0

\* Number of bytes after the lead byte at i that continue its sequence:
\* the second byte within the range its lead allows, the later ones
\* continuation bytes, at most Utf8Width - 1 of them.
Followers(b, i) ==
    LET w == Utf8Width(b[i])
        has(k) == i + k <= Len(b)
    IN  IF w < 2 \/ ~(has(1) /\ SecondOk(b[i], b[i + 1])) THEN 0
        ELSE IF w = 2 \/ ~(has(2) /\ IsCont(b[i + 2])) THEN 1
        ELSE IF w = 3 \/ ~(has(3) /\ IsCont(b[i + 3])) THEN 2
        ELSE 3

\* Byte i is taken up by the sequence of a lead byte at most 3 bytes before it.
Consumed(b, i) ==
    \E k \in 1..3 : i - k >= 1 /\ ~IsCont(b[i - k]) /\ Followers(b, i - k) >= k
                    /\ \A j \in 1..(k - 1) : IsCont(b[i - j])

\* What the decoder emits for the chunk that starts at byte i: the sequence
\* itself when it is complete, one U+FFFD for an invalid byte, a stray
\* continuation byte or an incomplete sequence.
ChunkOut(b, i) ==
    LET w == Utf8Width(b[i])
    IN  IF w = 1 THEN <<b[i]>>
        ELSE IF w >= 2 /\ Followers(b, i) = w - 1 THEN SubSeq(b, i, i + w - 1)
        ELSE REPLACEMENT

RECURSIVE LossyRange(_, _, _)
\* Output of the chunks that start in lo..hi.  The decoder of
\* String::from_utf8_lossy scans left to right, keeps valid sequences and
\* replaces each maximal invalid prefix by one U+FFFD; as a byte that cannot
\* continue the current sequence always starts the next chunk, where the
\* chunks start is decided by the (at most 3) bytes before, and the range is
\* halved to keep the evaluation shallow.
LossyRange(b, lo, hi) ==
    IF lo > hi THEN <<>>
    ELSE IF lo = hi
         THEN IF Consumed(b, lo) THEN <<>> ELSE ChunkOut(b, lo)
    ELSE LET mid == (lo + hi) \div 2
         IN  LossyRange(b, lo, mid) \o LossyRange(b, mid + 1, hi)

from_utf8_lossy(b) == LossyRange(b, 1, Len(b))

-----------------------------------------------------------------------------
(* truncate_message *)

Returned(s) == [ok |-> TRUE, val |-> s]

Panicked == [ok |-> FALSE, val |-> <<>>]

\* Mutant: the marker is added after max_len bytes.
truncate_message_late(msg, max_len) ==
    IF Len(msg) <= max_len THEN Returned(msg)
    ELSE IF ~is_char_boundary(msg, max_len) THEN Panicked
    ELSE Returned(SubSeq(msg, 1, max_len) \o Ellipsis)

\* fn truncate_message(msg: &str, max_len: usize) -> String.
\* max_len - 3 is a usize subtraction: for max_len < 3 it panics on overflow
\* (debug build) or wraps to a value above msg.len() (release build), for
\* which the slice panics as out of range; either way the call panics.
\* &msg[..end] panics when end is not a character boundary of msg.
truncate_message(msg, max_len) ==
    IF Len(msg) <= max_len THEN Returned(msg)
    ELSE IF max_len < 3 THEN Panicked
    ELSE IF ~is_char_boundary(msg, max_len - 3) THEN Panicked
    ELSE Returned(SubSeq(msg, 1, max_len - 3) \o Ellipsis)

-----------------------------------------------------------------------------
(* Harness: truncate_message applied to one drawn (msg, max_len) *)

\* Characters the drawn strings are built from: "a", "é" (2 bytes), "€" (3 bytes).
Chars == { <<97>>, <<195, 169>>, <<226, 130, 172>> }

RECURSIVE Concat(_)
Concat(cs) == IF cs = <<>> THEN <<>> ELSE Head(cs) \o Concat(Tail(cs))

\* "hello world"
HelloWorld == <<104, 101, 108, 108, 111, 32, 119, 111, 114, 108, 100>>

\* Valid UTF-8 strings of at most MaxChars characters, and "hello world".
StrInputs ==
    { Concat(cs) : cs \in UNION { [1..n -> Chars] : n \in 0..MaxChars } }
        \cup { HelloWorld }

NoResult == [ok |-> FALSE, val |-> <<>>]

TruncReturns ==
    /\ t_pc = "call"
    /\ truncate_message(t_msg, t_max).ok
    /\ t_out' = truncate_message(t_msg, t_max)
    /\ t_pc' = "returned"
    /\ UNCHANGED <<t_msg, t_max>>
    /\ UNCHANGED <<loopVars, apiVars, startVars>>

TruncPanics ==
    /\ t_pc = "call"
    /\ ~truncate_message(t_msg, t_max).ok
    /\ t_out' = truncate_message(t_msg, t_max)
    /\ t_pc' = "panicked"
    /\ UNCHANGED <<t_msg, t_max>>
    /\ UNCHANGED <<loopVars, apiVars, startVars>>

-----------------------------------------------------------------------------
(* Inputs of the loop *)

\* "hi"
PayloadHi == <<104, 105>>

\* 498 bytes "a" and one invalid byte: 499 bytes on the wire, 501 bytes once
\* from_utf8_lossy has replaced the invalid byte by U+FFFD.
PayloadLong == Rep(97, 498) \o <<255>>

\* 167 invalid bytes: from_utf8_lossy yields 167 times U+FFFD, 501 bytes, in
\* which byte offset 497 is inside the 166th character.
PayloadBad == Rep(255, 167)

Payloads == { PayloadHi, PayloadLong, PayloadBad }

other_topic == "/other"

Topics == { subscribe_topic, other_topic }

\* "ok"
ReplyOk == <<111, 107>>

\* 501 bytes "b"
ReplyLong == Rep(98, 501)

\* 496 bytes "a" followed by three "é": 502 bytes, byte offset 497 is inside
\* the first "é".
ReplySplit == Rep(97, 496) \o <<195, 169, 195, 169, 195, 169>>

Replies == { ReplyOk, ReplyLong, ReplySplit }

Some(text) == [some |-> TRUE, text |-> text]

None == [some |-> FALSE, text |-> <<>>]

\* What client.chat_completion(req).await can produce: a transport error, or
\* a response with its list of choices (each with an optional text content).
Responses ==
    { [err |-> TRUE, choices |-> <<>>],
      [err |-> FALSE, choices |-> <<>>],
      [err |-> FALSE, choices |-> <<[content |-> None]>>] }
    \cup { [err |-> FALSE, choices |-> <<[content |-> Some(r)]>>] : r \in Replies }
    \cup { [err |-> FALSE, choices |-> <<[content |-> Some(ReplyOk)], [content |-> None]>>] }

-----------------------------------------------------------------------------
(* Conversation history *)

\* Mutant: the message is given the user role.
UserMessage(text) == [role |-> "user", content |-> text]

\* ChatCompletionMessage { role: MessageRole::assistant, content:
\* Content::Text(text), name: None, tool_calls: None, tool_call_id: None }
AssistantMessage(text) == [role |-> "assistant", content |-> text]

\* Mutant: the trimming loop is missing.
TrimNever(h) == h

\* Mutant: the trimming loop pops the newest message (pop_back).
TrimBack(h) == SubSeq(h, 1, Min(Len(h), MAX_CONVERSATION_HISTORY))

\* Mutant: a full history is cut down to its newer half to make room.
TrimHalf(h) ==
    IF Len(h) > MAX_CONVERSATION_HISTORY
    THEN SubSeq(h, Len(h) - (MAX_CONVERSATION_HISTORY \div 2) + 1, Len(h))
    ELSE h

RECURSIVE Trim(_)
\* while conversation_history.len() > MAX_CONVERSATION_HISTORY { pop_front() }
Trim(h) == IF Len(h) > MAX_CONVERSATION_HISTORY THEN Trim(Tail(h)) ELSE h

\* push_back followed by the trimming loop
PushTrim(h, text) == Trim(Append(h, AssistantMessage(text)))

\* Mutant: the copy leaves the newest message out.
SnapshotStale(h) ==
    [i \in 1..(Len(h) - 1) |-> [role |-> h[i].role, content |-> h[i].content]]

\* conversation_history.iter().map(|msg| ...).collect(): a message by message
\* copy, same roles and contents, same order.
Snapshot(h) == [i \in DOMAIN h |-> [role |-> h[i].role, content |-> h[i].content]]

\* Mutant: the topic filter is missing.
OnTopicAny(topic) == TRUE

\* publish.topic == subscribe_topic
OnTopic(topic) == topic = subscribe_topic

-----------------------------------------------------------------------------
(* Completion invoker *)

Ok(text) == [ok |-> TRUE, text |-> text, error |-> ""]

Err(e) == [ok |-> FALSE, text |-> <<>>, error |-> e]

\* Mutant: the text is taken from the last choice.
call_openai_api_last(resp) ==
    IF resp.err THEN Err("transport")
    ELSE IF resp.choices # <<>>
         THEN IF Last(resp.choices).content.some
              THEN Ok(Last(resp.choices).content.text)
              ELSE Err("Empty response from OpenAI API")
         ELSE Err("No response from OpenAI API")

\* async fn call_openai_api: the ? operator passes a client error on; then
\* the first choice's content, or an error when there is no choice or the
\* first choice has no content.
call_openai_api(resp) ==
    IF resp.err THEN Err("transport")
    ELSE IF resp.choices # <<>>
         THEN IF Head(resp.choices).content.some
              THEN Ok(Head(resp.choices).content.text)
              ELSE Err("Empty response from OpenAI API")
         ELSE Err("No response from OpenAI API")

-----------------------------------------------------------------------------
(* Harness: call_openai_api applied to one drawn response *)

\* Contents of a drawn choice: none, "ok", "no", "".
ApiContents == { None, Some(ReplyOk), Some(<<110, 111>>), Some(<<>>) }

\* A transport error, or a response of at most MaxChoices choices.
ApiChoices == { [content |-> c] : c \in ApiContents }

ApiInputs ==
    { [err |-> TRUE, choices |-> <<>>] }
        \cup { [err |-> FALSE, choices |-> cs] :
                   cs \in UNION { [1..n -> ApiChoices] : n \in 0..MaxChoices } }

NoCall == [err |-> TRUE, choices |-> <<>>]

ApiIdle ==
    /\ a_pc = "idle"
    /\ a_resp = NoCall
    /\ a_out = Err("")

ApiReturnsOk ==
    /\ a_pc = "call"
    /\ call_openai_api(a_resp).ok
    /\ a_out' = call_openai_api(a_resp)
    /\ a_pc' = "returned"
    /\ UNCHANGED a_resp
    /\ UNCHANGED <<loopVars, truncVars, startVars>>

ApiReturnsErr ==
    /\ a_pc = "call"
    /\ ~call_openai_api(a_resp).ok
    /\ a_out' = call_openai_api(a_resp)
    /\ a_pc' = "returned"
    /\ UNCHANGED a_resp
    /\ UNCHANGED <<loopVars, truncVars, startVars>>

-----------------------------------------------------------------------------
(* Startup of main: lines 46-104 *)

EnvNames ==
    { "OPENAI_API_KEY", "OPENROUTER_API_KEY", "OPENAI_API_BASE",
      "OPENROUTER_BASE_URL", "OPENAI_MODEL", "OPENROUTER_MODEL" }

OpenAiUrl == "https://api.openai.com/v1"

DefaultEndpoint == "https://openrouter.ai/api/v1"

DefaultModel == "x-ai/grok-4.1-fast"

\* A variable of the process environment: not set, set to a value that is
\* valid Unicode, or set to a value that is not.
Unset == [state |-> "unset", val |-> ""]

NotUnicode == [state |-> "notunicode", val |-> "(bytes that are not valid Unicode)"]

Set(v) == [state |-> "unicode", val |-> v]

\* env::var(name): Err(NotPresent) for a variable that is not set,
\* Err(NotUnicode) for one whose value is not valid Unicode, Ok(value)
\* otherwise.
env_var(e, name) ==
    IF e[name].state = "unicode" THEN [ok |-> TRUE, val |-> e[name].val]
    ELSE [ok |-> FALSE, val |-> ""]

\* Mutant: the fallback variable is read first.
var_or_else_swapped(e, primary, fallback) ==
    IF env_var(e, fallback).ok THEN env_var(e, fallback) ELSE env_var(e, primary)

\* env::var(primary).or_else(|_| env::var(fallback))
var_or_else(e, primary, fallback) ==
    IF env_var(e, primary).ok THEN env_var(e, primary) ELSE env_var(e, fallback)

\* .unwrap_or_else(|_| default)
unwrap_or(r, default) == IF r.ok THEN r.val ELSE default

\* Lines 50-62 for an environment in which a key is found.
ReadConfig(e) ==
    [read |-> TRUE,
     api_key |-> var_or_else(e, "OPENAI_API_KEY", "OPENROUTER_API_KEY").val,
     endpoint |-> unwrap_or(var_or_else(e, "OPENAI_API_BASE", "OPENROUTER_BASE_URL"),
                            DefaultEndpoint),
     model |-> unwrap_or(var_or_else(e, "OPENAI_MODEL", "OPENROUTER_MODEL"),
                         DefaultModel)]

NoConfig == [read |-> FALSE, api_key |-> "", endpoint |-> "", model |-> ""]

NoSetup ==
    [client |-> FALSE, with_endpoint |-> FALSE, session |-> FALSE,
     subscribed |-> FALSE, exit |-> "none"]

\* Environments drawn for the startup: every variable not set, set to a value
\* that is not valid Unicode, or set to a value of its own; a key may be
\* empty, a base URL may be the OpenAI one.
EnvValues(name) ==
    { Unset, NotUnicode, Set("value of " \o name) }
        \cup (IF name \in {"OPENAI_API_KEY", "OPENROUTER_API_KEY"}
              THEN { Set("") } ELSE {})
        \cup (IF name \in {"OPENAI_API_BASE", "OPENROUTER_BASE_URL"}
              THEN { Set(OpenAiUrl) } ELSE {})

Envs == { e \in [EnvNames -> UNION { EnvValues(n) : n \in EnvNames }] :
              \A n \in EnvNames : e[n] \in EnvValues(n) }

\* The environment of the behaviours of the loop: only OPENAI_API_KEY is set.
LoopEnv ==
    [n \in EnvNames |-> IF n = "OPENAI_API_KEY" THEN Set("value of " \o n) ELSE Unset]

\* Mutant: a missing key is replaced by an empty one and the startup goes on.
GetConfigLenient ==
    /\ s_pc = "start"
    /\ cfg' = ReadConfig(env)
    /\ s_pc' = "build"
    /\ UNCHANGED <<env, setup>>
    /\ UNCHANGED <<loopVars, truncVars, apiVars>>

\* Lines 50-62: .expect(...) panics with its message when neither key
\* variable yields a value; the endpoint and the model have defaults.
GetConfig ==
    /\ s_pc = "start"
    /\ IF var_or_else(env, "OPENAI_API_KEY", "OPENROUTER_API_KEY").ok
       THEN /\ cfg' = ReadConfig(env)
            /\ s_pc' = "build"
            /\ UNCHANGED setup
       ELSE /\ s_pc' = "exited"
            /\ setup' = [setup EXCEPT !.exit =
                  "OPENAI_API_KEY or OPENROUTER_API_KEY environment variable must be set"]
            /\ UNCHANGED cfg
    /\ UNCHANGED env
    /\ UNCHANGED <<loopVars, truncVars, apiVars>>

\* Lines 65-74: OpenAIClient::builder()...build()?, with the endpoint unless
\* it is the OpenAI one; an error of build() is returned from main.
BuildClient(ok) ==
    /\ s_pc = "build"
    /\ IF ok
       THEN /\ setup' = [setup EXCEPT !.client = TRUE,
                                      !.with_endpoint = cfg.endpoint # OpenAiUrl]
            /\ s_pc' = "session"
       ELSE /\ setup' = [setup EXCEPT !.exit = "client build error"]
            /\ s_pc' = "exited"
    /\ UNCHANGED <<env, cfg>>
    /\ UNCHANGED <<loopVars, truncVars, apiVars>>

\* Lines 88-92: MqttOptions::new, set_keep_alive, AsyncClient::new
CreateSession ==
    /\ s_pc = "session"
    /\ setup' = [setup EXCEPT !.session = TRUE]
    /\ s_pc' = "subscribe"
    /\ UNCHANGED <<env, cfg>>
    /\ UNCHANGED <<loopVars, truncVars, apiVars>>

\* Line 95: client.subscribe(subscribe_topic, QoS::AtMostOnce).await?; an
\* error is returned from main.
Subscribe(ok) ==
    /\ s_pc = "subscribe"
    /\ IF ok
       THEN /\ Len(requests) < RequestCap
            /\ requests' = Append(requests, "subscribe")
            /\ setup' = [setup EXCEPT !.subscribed = TRUE]
            /\ s_pc' = "enter"
       ELSE /\ setup' = [setup EXCEPT !.exit = "subscribe error"]
            /\ s_pc' = "exited"
            /\ UNCHANGED requests
    /\ UNCHANGED <<env, cfg>>
    /\ UNCHANGED <<pc, conversation_history, events, messages, inflight, pubPending,
                   appended, iter, polled>>
    /\ UNCHANGED <<truncVars, apiVars>>

\* Lines 101-104: the empty history, then the loop and its first poll.
EnterLoop ==
    /\ s_pc = "enter"
    /\ s_pc' = "loop"
    /\ pc' = "poll"
    /\ conversation_history' = <<>>
    /\ UNCHANGED <<events, messages, inflight, pubPending, requests, appended,
                   iter, polled>>
    /\ UNCHANGED <<env, cfg, setup>>
    /\ UNCHANGED <<truncVars, apiVars>>

\* The startup has been through and the loop is where main enters it.
StartDone ==
    /\ s_pc = "loop"
    /\ env = LoopEnv
    /\ cfg = ReadConfig(LoopEnv)
    /\ setup = [client |-> TRUE, with_endpoint |-> TRUE, session |-> TRUE,
                subscribed |-> TRUE, exit |-> "none"]

TruncIdle ==
    /\ t_pc = "idle"
    /\ t_msg = <<>>
    /\ t_max = 0
    /\ t_out = [ok |-> FALSE, val |-> <<>>]

-----------------------------------------------------------------------------
(* The loop *)

\* turns: inbound-topic messages polled so far; calls: completion calls
\* issued so far; pubOk: how the publish of the iteration ended.
NoIter ==
    [len0 |-> 0, app0 |-> 0, inbound |-> <<>>, outcome |-> "none",
     reply |-> <<>>, pubs |-> 0, pubTopic |-> "", pubPayload |-> <<>>,
     pubOk |-> "none", prevErr |-> FALSE, prevInbound |-> <<>>,
     turns |-> 0, calls |-> 0, payload |-> <<>>]

\* History record of an iteration that starts now for an inbound-topic message.
StartIter(outcome, inbound, payload) ==
    [len0 |-> Len(conversation_history), app0 |-> Len(appended),
     inbound |-> inbound, outcome |-> outcome,
     reply |-> <<>>, pubs |-> 0, pubTopic |-> "", pubPayload |-> <<>>,
     pubOk |-> "none", prevErr |-> iter.outcome = "err",
     prevInbound |-> IF iter.outcome = "err" THEN iter.inbound ELSE <<>>,
     turns |-> iter.turns + 1,
     calls |-> IF outcome = "calling" THEN iter.calls + 1 ELSE iter.calls,
     payload |-> payload]

NoEvent == [kind |-> "none", topic |-> ""]

Event(kind, topic) == [kind |-> kind, topic |-> topic]

Init ==
    /\ pc = "poll"
    /\ conversation_history = <<>>
    /\ events = <<>>
    /\ messages = <<>>
    /\ inflight = 0
    /\ pubPending = 0
    /\ requests = <<"subscribe">>
    /\ appended = <<>>
    /\ iter = NoIter
    /\ polled = NoEvent
    /\ TruncIdle
    /\ ApiIdle
    /\ StartDone

\* Pushes the pending and running inbound-topic iterations can still make.
Owed ==
    2 * Cardinality({ i \in DOMAIN events : events[i].topic = subscribe_topic })
        + (IF pc = "api" THEN 1 ELSE 0)

\* The subscribe request has left the channel: the broker has the
\* subscription only once a poll has taken the request.
SubscribeSent == \A i \in DOMAIN requests : requests[i] # "subscribe"

\* What a poll can leave in the channel when it takes at most one request.
TakeOne == { requests } \cup (IF requests = <<>> THEN {} ELSE { Tail(requests) })

\* What a poll can leave in the channel when it takes any number of requests.
TakeAny == { SubSeq(requests, k + 1, Len(requests)) : k \in 0..Len(requests) }

\* The broker delivers a publish; it waits until the loop polls.  Deliveries
\* are taken while the loop polls or awaits the completion call; one made
\* while it awaits the publish or sleeps waits all the same and is where it
\* would be had it been made right after.
Arrive(topic, payload) ==
    /\ pc \in {"poll", "api"}
    /\ Len(events) < MaxPending
    /\ topic = subscribe_topic => Len(appended) + Owed + 2 <= MaxAppends
    /\ topic = subscribe_topic /\ payload = PayloadLong
          => Len(appended) + Owed < MaxLong
    /\ topic # subscribe_topic => payload = PayloadHi
    /\ topic = subscribe_topic => SubscribeSent
    /\ events' = Append(events, [topic |-> topic, payload |-> payload])
    /\ UNCHANGED <<pc, conversation_history, messages, inflight, pubPending,
                   requests, appended, iter, polled>>
    /\ UNCHANGED otherVars

\* Lines 113-159 for a payload on the inbound topic, up to the point where
\* the loop is suspended at next: sanitize, push, trim, snapshot, call.
InboundTurn(payload, next) ==
    LET esp32_response == truncate_message(payload, MAX_MESSAGE_LENGTH)
    IN  IF esp32_response.ok
        THEN /\ conversation_history' = PushTrim(conversation_history, esp32_response.val)
             /\ appended' = Append(appended, AssistantMessage(esp32_response.val))
             /\ messages' = Snapshot(conversation_history')
             /\ inflight' = inflight + 1
             /\ pc' = next
             /\ iter' = StartIter("calling", esp32_response.val, payload)
             /\ UNCHANGED pubPending
        ELSE /\ pc' = "panicked"
             /\ iter' = StartIter("panic", <<>>, payload)
             /\ UNCHANGED <<conversation_history, appended, messages, inflight, pubPending>>

\* Mutant: the completion call is spawned as a task and the loop polls again.
HandleInboundDetached(payload) == InboundTurn(payload, "poll")

\* The body of `if publish.topic == subscribe_topic`: the loop awaits the
\* completion call.
HandleInbound(payload) == InboundTurn(payload, "api")

\* Ok(Event::Incoming(Incoming::Publish(publish)))
PollPublish ==
    /\ pc = "poll"
    /\ events # <<>>
    /\ events' = Tail(events)
    /\ polled' = IF OnTopic(Head(events).topic)
                 THEN Event("Publish", Head(events).topic)
                 ELSE NoEvent
    /\ LET publish == Head(events)
           payload == from_utf8_lossy(publish.payload)
       IN  IF OnTopic(publish.topic)
           THEN HandleInbound(payload)
           ELSE UNCHANGED <<pc, conversation_history, messages, inflight,
                            pubPending, appended, iter>>
    /\ UNCHANGED requests
    /\ UNCHANGED otherVars

\* Ok(Event::Incoming(Incoming::ConnAck(_)))
PollConnAck ==
    /\ pc = "poll"
    /\ polled' = NoEvent
    /\ UNCHANGED <<pc, conversation_history, events, messages, inflight, pubPending,
                   requests, appended, iter>>
    /\ UNCHANGED otherVars

\* Ok(_)
PollOther ==
    /\ pc = "poll"
    /\ polled' = NoEvent
    /\ requests' \in TakeOne
    /\ UNCHANGED <<pc, conversation_history, events, messages, inflight, pubPending,
                   appended, iter>>
    /\ UNCHANGED otherVars

\* Mutant: a transport error starts the conversation over.
PollErrReset ==
    /\ pc = "poll"
    /\ pc' = "sleep"
    /\ polled' = Event("Err", "")
    /\ conversation_history' = <<>>
    /\ requests' \in TakeAny
    /\ UNCHANGED <<events, messages, inflight, pubPending, appended, iter>>
    /\ UNCHANGED otherVars

\* Err(e): log, then sleep 100 ms
PollErr ==
    /\ pc = "poll"
    /\ pc' = "sleep"
    /\ polled' = Event("Err", "")
    /\ requests' \in TakeAny
    /\ UNCHANGED <<conversation_history, events, messages, inflight, pubPending,
                   appended, iter>>
    /\ UNCHANGED otherVars

\* tokio::time::sleep(Duration::from_millis(100)) returns
SleepDone ==
    /\ pc = "sleep"
    /\ pc' = "poll"
    /\ polled' = NoEvent
    /\ UNCHANGED <<conversation_history, events, messages, inflight, pubPending,
                   requests, appended, iter>>
    /\ UNCHANGED otherVars

\* Mutant: a failed completion takes the inbound turn back out of the history.
OnApiErrRollback ==
    /\ pc' = "poll"
    /\ conversation_history' = SubSeq(conversation_history, 1, Len(conversation_history) - 1)
    /\ iter' = [iter EXCEPT !.outcome = "err"]
    /\ polled' = NoEvent
    /\ UNCHANGED <<appended, pubPending>>

\* Err(e) => eprintln!(...): nothing else, the loop polls again.
OnApiErr ==
    /\ pc' = "poll"
    /\ iter' = [iter EXCEPT !.outcome = "err"]
    /\ polled' = NoEvent
    /\ UNCHANGED <<conversation_history, appended, pubPending>>

\* Mutant: the reply is published and not appended.
OnApiOkPublishOnly(response) ==
    LET truncated_response == truncate_message(response, MAX_MESSAGE_LENGTH)
    IN  IF truncated_response.ok
        THEN /\ pubPending' = pubPending + 1
             /\ pc' = "publish"
             /\ iter' = [iter EXCEPT !.outcome = "ok", !.reply = response,
                                     !.pubs = iter.pubs + 1,
                                     !.pubTopic = publish_topic,
                                     !.pubPayload = truncated_response.val]
             /\ UNCHANGED <<conversation_history, appended, polled>>
        ELSE /\ pc' = "panicked"
             /\ iter' = [iter EXCEPT !.outcome = "ok", !.reply = response]
             /\ UNCHANGED <<conversation_history, appended, pubPending, polled>>

\* Ok(response) => sanitize, push, trim, publish (lines 160-185).
OnApiOk(response) ==
    LET truncated_response == truncate_message(response, MAX_MESSAGE_LENGTH)
    IN  IF truncated_response.ok
        THEN /\ conversation_history' = PushTrim(conversation_history, truncated_response.val)
             /\ appended' = Append(appended, AssistantMessage(truncated_response.val))
             /\ pubPending' = pubPending + 1
             /\ pc' = "publish"
             /\ iter' = [iter EXCEPT !.outcome = "ok", !.reply = response,
                                     !.pubs = iter.pubs + 1,
                                     !.pubTopic = publish_topic,
                                     !.pubPayload = truncated_response.val]
             /\ UNCHANGED polled
        ELSE /\ pc' = "panicked"
             /\ iter' = [iter EXCEPT !.outcome = "ok", !.reply = response]
             /\ UNCHANGED <<conversation_history, appended, pubPending, polled>>

\* call_openai_api(...).await returns
ApiReturn(resp) ==
    /\ pc = "api"
    /\ call_openai_api(resp).ok /\ call_openai_api(resp).text = ReplyLong
          => Len(appended) < MaxLong
    /\ inflight' = inflight - 1
    /\ messages' = <<>>
    /\ IF call_openai_api(resp).ok
       THEN OnApiOk(call_openai_api(resp).text)
       ELSE OnApiErr
    /\ UNCHANGED <<events, requests>>
    /\ UNCHANGED otherVars

\* Mutant: the publish error is passed on with `?` and ends main.
PublishReturnFatal(ok) ==
    /\ pc = "publish"
    /\ IF ok
       THEN /\ Len(requests) < RequestCap
            /\ requests' = Append(requests, "publish")
       ELSE UNCHANGED requests
    /\ pubPending' = pubPending - 1
    /\ pc' = IF ok THEN "poll" ELSE "panicked"
    /\ iter' = [iter EXCEPT !.pubOk = IF ok THEN "ok" ELSE "err"]
    /\ polled' = NoEvent
    /\ UNCHANGED <<conversation_history, events, messages, inflight, appended>>
    /\ UNCHANGED otherVars

\* client.publish(...).await returns: Ok once the request is in the channel,
\* for which the call waits while the channel is full, or Err; logged either
\* way
PublishReturn(ok) ==
    /\ pc = "publish"
    /\ IF ok
       THEN /\ Len(requests) < RequestCap
            /\ requests' = Append(requests, "publish")
       ELSE UNCHANGED requests
    /\ pubPending' = pubPending - 1
    /\ pc' = "poll"
    /\ iter' = [iter EXCEPT !.pubOk = IF ok THEN "ok" ELSE "err"]
    /\ polled' = NoEvent
    /\ UNCHANGED <<conversation_history, events, messages, inflight, appended>>
    /\ UNCHANGED otherVars

Next ==
    \/ \E topic \in Topics, payload \in Payloads : Arrive(topic, payload)
    \/ PollPublish
    \/ PollConnAck
    \/ PollOther
    \/ PollErr
    \/ SleepDone
    \/ \E resp \in Responses : ApiReturn(resp)
    \/ \E ok \in BOOLEAN : PublishReturn(ok)

Spec == Init /\ [][Next]_vars

(* The burst specification: the loop under a burst of short publishes on    *)
(* the inbound topic, every completion call returning a reply               *)

\* The broker delivers the next publish of the burst.
ArriveBurst ==
    /\ pc \in {"poll", "api"}
    /\ Len(events) < MaxPending
    /\ iter.turns + Len(events) < MaxBurst
    /\ SubscribeSent
    /\ events' = Append(events, [topic |-> subscribe_topic, payload |-> PayloadHi])
    /\ UNCHANGED <<pc, conversation_history, messages, inflight, pubPending,
                   requests, appended, iter, polled>>
    /\ UNCHANGED otherVars

NextBurst ==
    \/ ArriveBurst
    \/ PollPublish
    \/ PollOther
    \/ ApiReturn([err |-> FALSE, choices |-> <<[content |-> Some(ReplyOk)]>>])
    \/ PublishReturn(TRUE)

SpecBurst == Init /\ [][NextBurst]_vars

(* The harness specification *)

InitTrunc ==
    /\ pc = "poll"
    /\ conversation_history = <<>>
    /\ events = <<>>
    /\ messages = <<>>
    /\ inflight = 0
    /\ pubPending = 0
    /\ requests = <<"subscribe">>
    /\ appended = <<>>
    /\ iter = NoIter
    /\ polled = NoEvent
    /\ t_pc = "call"
    /\ t_msg \in StrInputs
    /\ t_max \in 0..MaxBound
    /\ t_out = NoResult
    /\ ApiIdle
    /\ StartDone

NextTrunc == TruncReturns \/ TruncPanics

SpecTrunc == InitTrunc /\ [][NextTrunc]_vars

\* The loop variables where the harnesses leave them.
LoopIdle ==
    /\ pc = "poll"
    /\ conversation_history = <<>>
    /\ events = <<>>
    /\ messages = <<>>
    /\ inflight = 0
    /\ pubPending = 0
    /\ requests = <<"subscribe">>
    /\ appended = <<>>
    /\ iter = NoIter
    /\ polled = NoEvent

InitApi ==
    /\ LoopIdle
    /\ TruncIdle
    /\ StartDone
    /\ a_pc = "call"
    /\ a_resp \in ApiInputs
    /\ a_out = Err("")

NextApi == ApiReturnsOk \/ ApiReturnsErr

SpecApi == InitApi /\ [][NextApi]_vars

(* The startup specification: main from its first line to the loop *)

InitStart ==
    /\ pc = "startup"
    /\ conversation_history = <<>>
    /\ events = <<>>
    /\ messages = <<>>
    /\ inflight = 0
    /\ pubPending = 0
    /\ requests = <<>>
    /\ appended = <<>>
    /\ iter = NoIter
    /\ polled = NoEvent
    /\ TruncIdle
    /\ ApiIdle
    /\ s_pc = "start"
    /\ env \in Envs
    /\ cfg = NoConfig
    /\ setup = NoSetup

NextStart ==
    \/ GetConfig
    \/ \E ok \in BOOLEAN : BuildClient(ok)
    \/ CreateSession
    \/ \E ok \in BOOLEAN : Subscribe(ok)
    \/ EnterLoop

SpecStart == InitStart /\ [][NextStart]_vars

-----------------------------------------------------------------------------
(* Claims *)

Polling == pc \in {"poll", "sleep"}

\* C1: the conversation history, and the copy of it handed to the completion
\* call, never hold more than MAX_CONVERSATION_HISTORY messages where the loop
\* polls, awaits the completion call or awaits the publish.
C1_HistoryBounded ==
    pc \in {"poll", "sleep", "api", "publish"}
        => /\ Len(conversation_history) <= MAX_CONVERSATION_HISTORY
           /\ Len(messages) <= MAX_CONVERSATION_HISTORY

\* More messages were pushed than the history may hold, and a reply has just
\* been pushed onto the full history.
C1_Witness ==
    /\ pc = "publish"
    /\ Len(appended) > MAX_CONVERSATION_HISTORY
    /\ Len(conversation_history) = MAX_CONVERSATION_HISTORY

\* C2: the history is exactly the most recent min(count, maxHistory) pushed
\* messages, in push order.
C2_MostRecentRetained ==
    LET n == Len(appended)
        k == Min(n, MAX_CONVERSATION_HISTORY)
    IN  conversation_history = SubSeq(appended, n - k + 1, n)

\* The oldest message has been evicted and the survivors are not all alike.
C2_Witness ==
    /\ Len(appended) > MAX_CONVERSATION_HISTORY
    /\ conversation_history = SubSeq(appended, 2, Len(appended))
    /\ appended[1] # Last(appended)
    /\ Polling

\* C3: once the loop is entered nothing ends it: it never panics.
C3_LoopNeverStops == pc \in {"poll", "sleep", "api", "publish"}

\* C4 as stated: after a failed completion the history is one entry longer
\* than before the iteration (the sanitized inbound turn), nothing else was
\* pushed or published, and the next inbound-topic iteration sends the failed
\* turn's message along.
C4_GrowsByOneOnFailure ==
    /\ iter.outcome = "err"
          => /\ Len(conversation_history) = iter.len0 + 1
             /\ Last(conversation_history).content = iter.inbound
             /\ Len(appended) = iter.app0 + 1
             /\ iter.pubs = 0
             /\ Polling /\ inflight = 0 /\ pubPending = 0
    /\ pc = "api" /\ iter.prevErr
          => /\ Len(messages) >= 2
             /\ messages[Len(messages) - 1].content = iter.prevInbound

\* C4 amended: after a failed completion exactly one message was pushed, the
\* sanitized inbound turn, and it is the last of the history; the history is
\* one entry longer than before, or still full when it was full; nothing was
\* published, the loop is back at polling, and the completion call of the
\* next inbound-topic iteration is handed the failed turn's message as the
\* second to last entry.
C4_OnePushOnFailure ==
    /\ iter.outcome = "err"
          => /\ Len(conversation_history)
                    = Min(iter.len0 + 1, MAX_CONVERSATION_HISTORY)
             /\ Last(conversation_history).content = iter.inbound
             /\ Len(appended) = iter.app0 + 1
             /\ iter.pubs = 0
             /\ Polling /\ inflight = 0 /\ pubPending = 0
    /\ pc = "api" /\ iter.prevErr
          => /\ Len(messages) >= 2
             /\ messages[Len(messages) - 1].content = iter.prevInbound
             /\ Last(messages).content = iter.inbound

\* Two completions in a row have failed, the second with the history full.
C4_Witness ==
    /\ iter.outcome = "err"
    /\ iter.prevErr
    /\ iter.len0 = MAX_CONVERSATION_HISTORY
    /\ pc = "poll"

\* C5: after a completion that succeeded with text r the history is two
\* entries longer than before the iteration, the inbound turn then the reply
\* at the tail, and exactly one publish was issued, on the outbound topic,
\* with the sanitized r as payload.
C5_GrowsByTwoOnSuccess ==
    iter.outcome = "ok"
        => /\ Len(conversation_history) = iter.len0 + 2
           /\ conversation_history[Len(conversation_history) - 1].content = iter.inbound
           /\ truncate_message(iter.reply, MAX_MESSAGE_LENGTH).ok
           /\ Last(conversation_history).content
                  = truncate_message(iter.reply, MAX_MESSAGE_LENGTH).val
           /\ iter.pubs = 1
           /\ iter.pubTopic = publish_topic
           /\ iter.pubPayload = truncate_message(iter.reply, MAX_MESSAGE_LENGTH).val

\* C6: a poll that returns a publish on another topic than the inbound topic
\* changes neither the history nor the pushes, issues no completion call and
\* no publish, and leaves the loop at polling.
C6_OtherTopicIgnored ==
    [][ (/\ pc = "poll"
         /\ events # <<>>
         /\ events' = Tail(events)
         /\ Head(events).topic # subscribe_topic)
        => /\ conversation_history' = conversation_history
           /\ appended' = appended
           /\ messages' = messages
           /\ inflight' = 0
           /\ pubPending' = 0
           /\ iter' = iter
           /\ pc' = "poll" ]_vars

\* A publish on another topic is what the poll returns, with a full history
\* to keep and after a completion call.
C6_Witness ==
    /\ pc = "poll"
    /\ events # <<>>
    /\ Head(events).topic = other_topic
    /\ Len(conversation_history) = MAX_CONVERSATION_HISTORY
    /\ iter.calls > 0

Finished == t_pc \in {"returned", "panicked"}

\* C7: truncate_message(s, n) is at most n bytes long, and is s when s is at
\* most n bytes long.
C7_LengthBounded ==
    Finished
        => /\ t_out.ok
           /\ Len(t_out.val) <= t_max
           /\ Len(t_msg) <= t_max => t_out.val = t_msg

\* C8: for s longer than maxLen (maxLen at least the length of the marker)
\* the result is the first maxLen - 3 bytes of s followed by "...", maxLen
\* bytes in all.
C8_PrefixAndMarker ==
    Finished /\ t_max >= 3 /\ Len(t_msg) > t_max
        => /\ t_out.ok
           /\ t_out.val = SubSeq(t_msg, 1, t_max - 3) \o Ellipsis
           /\ Len(t_out.val) = t_max

\* C9: truncate_message never panics: for every UTF-8 string and every
\* maxLen of 3 or more it returns, and when it has cut the string the cut is
\* at a character boundary at or before maxLen - 3 bytes.
C9_NeverPanics ==
    Finished /\ t_max >= 3
        => /\ t_pc = "returned"
           /\ Len(t_msg) > t_max
                 => \E cut \in 0..(t_max - 3) :
                        /\ is_char_boundary(t_msg, cut)
                        /\ t_out.val = SubSeq(t_msg, 1, cut) \o Ellipsis

C11_PublishFailureContained ==
    /\ iter.outcome = "ok" /\ iter.pubOk = "err"
          => Polling /\ inflight = 0 /\ pubPending = 0
    /\ iter.outcome = "ok" /\ iter.pubOk \in {"ok", "err"}
          => /\ Len(conversation_history)
                    = Min(iter.len0 + 2, MAX_CONVERSATION_HISTORY)
             /\ conversation_history[Len(conversation_history) - 1].content
                    = iter.inbound
             /\ Last(conversation_history).content
                    = truncate_message(iter.reply, MAX_MESSAGE_LENGTH).val
             /\ Len(appended) = iter.app0 + 2

\* A publish has failed after a reply was pushed onto the full history.
C11_Witness ==
    /\ iter.outcome = "ok"
    /\ iter.pubOk = "err"
    /\ iter.len0 = MAX_CONVERSATION_HISTORY
    /\ pc = "poll"

\* C12: call_openai_api returns the text of the first choice when the client
\* call succeeds and the first choice has a text; it returns one error when
\* there is no choice, another when the first choice has no text, a third
\* when the client call fails; it never returns Ok otherwise.
C12_FirstChoiceOrError ==
    a_pc = "returned" =>
        /\ a_out.ok <=> /\ ~a_resp.err
                        /\ a_resp.choices # <<>>
                        /\ a_resp.choices[1].content.some
        /\ a_out.ok => a_out.text = a_resp.choices[1].content.text
        /\ a_resp.err => a_out.error = "transport"
        /\ ~a_resp.err /\ a_resp.choices = <<>>
              => a_out.error = "No response from OpenAI API"
        /\ ~a_resp.err /\ a_resp.choices # <<>> /\ ~a_resp.choices[1].content.some
              => a_out.error = "Empty response from OpenAI API"

C12_Witness ==
    /\ a_pc = "returned"
    /\ a_out.ok
    /\ Len(a_resp.choices) = 2
    /\ ~a_resp.choices[2].content.some

\* C13: every message polled on the inbound topic has caused exactly one
\* completion call: the number of completion calls made equals the number of
\* inbound-topic messages the loop has taken up.
C13_OneCallPerInbound == iter.calls = iter.turns

\* C15: a poll that returns no publish (ConnAck, another event or an error)
\* leaves the history, the record of appends and the iteration record
\* unchanged, with no completion call in flight, no publish issued and no
\* request added to the channel; after an error the loop sleeps, otherwise
\* it polls again; the sleep changes nothing and ends at the next poll.
C15_QuietEvents ==
    [][ /\ pc = "poll" /\ events' = events
           => /\ polled'.kind \in {"none", "Err"}
              /\ Len(requests') <= Len(requests)
              /\ conversation_history' = conversation_history
              /\ appended' = appended
              /\ iter' = iter
              /\ messages' = messages
              /\ inflight' = 0
              /\ pubPending' = 0
              /\ pc' = IF polled'.kind = "Err" THEN "sleep" ELSE "poll"
        /\ pc = "sleep"
           => /\ pc' = "poll"
              /\ polled.kind = "Err"
              /\ requests' = requests
              /\ conversation_history' = conversation_history
              /\ appended' = appended
              /\ iter' = iter
              /\ inflight' = 0
              /\ pubPending' = 0 ]_vars

C15_Witness ==
    /\ pc = "sleep"
    /\ polled.kind = "Err"
    /\ Len(conversation_history) = MAX_CONVERSATION_HISTORY
    /\ iter.calls > 0

\* C16: while the completion call is awaited the inbound turn, and nothing
\* else, has been appended in this iteration and nothing has been published;
\* a publish is awaited only after a successful completion of the same
\* iteration whose sanitized reply is already the last entry of the trimmed
\* history; an iteration whose completion failed publishes nothing.
C16_StepOrder ==
    /\ pc = "api"
          => /\ iter.outcome = "calling"
             /\ Len(appended) = iter.app0 + 1
             /\ Last(appended).content = iter.inbound
             /\ Len(conversation_history) <= MAX_CONVERSATION_HISTORY
             /\ iter.pubs = 0
             /\ pubPending = 0
    /\ pc = "publish"
          => /\ iter.outcome = "ok"
             /\ Len(appended) = iter.app0 + 2
             /\ appended[iter.app0 + 1].content = iter.inbound
             /\ Last(appended).content = iter.pubPayload
             /\ Last(conversation_history).content = iter.pubPayload
             /\ iter.pubPayload = truncate_message(iter.reply, MAX_MESSAGE_LENGTH).val
             /\ Len(conversation_history) <= MAX_CONVERSATION_HISTORY
             /\ iter.pubs = 1
             /\ pubPending = 1
    /\ pubPending > 0 => pc = "publish"
    /\ iter.pubs > 0 => iter.outcome = "ok" /\ iter.pubs = 1
    /\ iter.outcome \in {"calling", "err", "panic", "none"} => iter.pubs = 0

C16_Witness ==
    /\ pc = "publish"
    /\ iter.len0 = MAX_CONVERSATION_HISTORY
    /\ iter.prevErr

\* C17: the messages handed to the completion call are the history as it is
\* after the inbound turn was appended and trimmed, message by message, 1 to
\* MAX_CONVERSATION_HISTORY of them, the last one the sanitized payload; the
\* history is the one the appends made, and a copy taken again is the same.
C17_SnapshotIsHistory ==
    pc = "api" =>
        /\ messages = conversation_history
        /\ Len(messages) >= 1
        /\ Len(messages) <= MAX_CONVERSATION_HISTORY
        /\ Len(messages) = Min(iter.len0 + 1, MAX_CONVERSATION_HISTORY)
        /\ Last(messages).content
              = truncate_message(iter.payload, MAX_MESSAGE_LENGTH).val
        /\ conversation_history
              = SubSeq(appended, Len(appended) - Len(messages) + 1, Len(appended))
        /\ Snapshot(conversation_history) = messages

C17_Witness ==
    /\ pc = "api"
    /\ iter.len0 = MAX_CONVERSATION_HISTORY
    /\ Len(messages) = MAX_CONVERSATION_HISTORY
    /\ messages[1] # appended[1]

\* C18: every message in the history, every message ever appended, every
\* message handed to the completion call and every published payload is at
\* most MAX_MESSAGE_LENGTH bytes long.
C18_LengthsBounded ==
    /\ \A i \in DOMAIN conversation_history :
           Len(conversation_history[i].content) <= MAX_MESSAGE_LENGTH
    /\ \A i \in DOMAIN appended : Len(appended[i].content) <= MAX_MESSAGE_LENGTH
    /\ \A i \in DOMAIN messages : Len(messages[i].content) <= MAX_MESSAGE_LENGTH
    /\ Len(iter.pubPayload) <= MAX_MESSAGE_LENGTH

C18_Witness ==
    /\ pc = "publish"
    /\ Len(iter.payload) > MAX_MESSAGE_LENGTH
    /\ Len(iter.reply) > MAX_MESSAGE_LENGTH
    /\ Len(iter.pubPayload) = MAX_MESSAGE_LENGTH
    /\ Len(conversation_history[Len(conversation_history) - 1].content)
          = MAX_MESSAGE_LENGTH

\* C19: every message in the history, every message ever appended and every
\* message handed to the completion call has the assistant role.
C19_AllAssistant ==
    /\ \A i \in DOMAIN conversation_history :
           conversation_history[i].role = "assistant"
    /\ \A i \in DOMAIN appended : appended[i].role = "assistant"
    /\ \A i \in DOMAIN messages : messages[i].role = "assistant"

C19_Witness ==
    /\ pc = "api"
    /\ iter.turns >= 2
    /\ Len(appended) >= 3
    /\ Len(messages) >= 3

\* The variable is set in the environment of the process, to any value.
IsSet(name) == env[name].state # "unset"

\* The variable is set to a value that is valid Unicode.
IsUsable(name) == env[name].state = "unicode"

KeyDiagnostic ==
    "OPENAI_API_KEY or OPENROUTER_API_KEY environment variable must be set"

\* The startup has stopped on the missing key with nothing set up.
StoppedOnKey ==
    /\ s_pc = "exited"
    /\ setup.exit = KeyDiagnostic
    /\ ~cfg.read
    /\ ~setup.client /\ ~setup.session /\ ~setup.subscribed
    /\ pc = "startup"
    /\ inflight = 0

\* C14: when neither OPENAI_API_KEY nor OPENROUTER_API_KEY is set the startup
\* stops with the diagnostic before a client, a session or a subscription
\* exists and before the loop; when one of them is set the startup never
\* stops.
C14_StopsOnlyWithoutKey ==
    /\ ~IsSet("OPENAI_API_KEY") /\ ~IsSet("OPENROUTER_API_KEY") /\ s_pc # "start"
          => StoppedOnKey
    /\ IsSet("OPENAI_API_KEY") \/ IsSet("OPENROUTER_API_KEY")
          => s_pc # "exited"

\* C14 (amended): when neither key variable holds a value that is valid
\* Unicode the startup stops with the diagnostic before a client, a session
\* or a subscription exists and before the loop; when one does, the startup
\* stops only on an error of the client build or of the subscribe request,
\* and the loop is entered only with client, session and subscription made.
C14_StopsWithoutUsableKey ==
    /\ ~IsUsable("OPENAI_API_KEY") /\ ~IsUsable("OPENROUTER_API_KEY") /\ s_pc # "start"
          => StoppedOnKey
    /\ (IsUsable("OPENAI_API_KEY") \/ IsUsable("OPENROUTER_API_KEY")) /\ s_pc = "exited"
          => /\ \/ setup.exit = "client build error" /\ ~setup.client /\ ~setup.session
                \/ setup.exit = "subscribe error" /\ setup.client /\ setup.session
             /\ ~setup.subscribed
             /\ pc = "startup"
    /\ s_pc = "loop"
          => /\ IsUsable("OPENAI_API_KEY") \/ IsUsable("OPENROUTER_API_KEY")
             /\ setup.client /\ setup.session /\ setup.subscribed
             /\ setup.exit = "none"
             /\ pc = "poll"
    /\ pc = "startup" <=> s_pc # "loop"

C14_Witness ==
    /\ env["OPENAI_API_KEY"] = NotUnicode
    /\ env["OPENROUTER_API_KEY"] = Unset
    /\ StoppedOnKey

\* The value the startup uses follows the precedence of the claim, given
\* for each of the two variables whether it counts: the primary's value
\* when the primary counts, else the fallback's when the fallback counts,
\* else the default.
Precedence(primary, pCounts, fallback, fCounts, default, used) ==
    /\ pCounts => used = env[primary].val
    /\ ~pCounts /\ fCounts => used = env[fallback].val
    /\ ~pCounts /\ ~fCounts => used = default

\* C20: once the configuration is read, the key, the endpoint and the model
\* are each the value of the primary variable when that variable is set,
\* else the value of the fallback variable when that one is set, else (for
\* endpoint and model) the built-in default.
C20_PrimaryWhenSet ==
    cfg.read =>
        /\ IsSet("OPENAI_API_KEY") \/ IsSet("OPENROUTER_API_KEY")
        /\ Precedence("OPENAI_API_KEY", IsSet("OPENAI_API_KEY"),
                      "OPENROUTER_API_KEY", IsSet("OPENROUTER_API_KEY"),
                      "", cfg.api_key)
        /\ Precedence("OPENAI_API_BASE", IsSet("OPENAI_API_BASE"),
                      "OPENROUTER_BASE_URL", IsSet("OPENROUTER_BASE_URL"),
                      DefaultEndpoint, cfg.endpoint)
        /\ Precedence("OPENAI_MODEL", IsSet("OPENAI_MODEL"),
                      "OPENROUTER_MODEL", IsSet("OPENROUTER_MODEL"),
                      DefaultModel, cfg.model)

\* C20 (amended): once the configuration is read, the key, the endpoint and
\* the model are each the value of the primary variable when that value is
\* valid Unicode, else the value of the fallback variable when that one is
\* valid Unicode, else (for endpoint and model) the built-in default; a
\* variable set to a value that is not valid Unicode counts as not set.
C20_PrimaryWhenUsable ==
    cfg.read =>
        /\ IsUsable("OPENAI_API_KEY") \/ IsUsable("OPENROUTER_API_KEY")
        /\ Precedence("OPENAI_API_KEY", IsUsable("OPENAI_API_KEY"),
                      "OPENROUTER_API_KEY", IsUsable("OPENROUTER_API_KEY"),
                      "", cfg.api_key)
        /\ Precedence("OPENAI_API_BASE", IsUsable("OPENAI_API_BASE"),
                      "OPENROUTER_BASE_URL", IsUsable("OPENROUTER_BASE_URL"),
                      DefaultEndpoint, cfg.endpoint)
        /\ Precedence("OPENAI_MODEL", IsUsable("OPENAI_MODEL"),
                      "OPENROUTER_MODEL", IsUsable("OPENROUTER_MODEL"),
                      DefaultModel, cfg.model)

C20_Witness ==
    /\ cfg.read
    /\ IsUsable("OPENAI_API_KEY") /\ IsUsable("OPENROUTER_API_KEY")
    /\ env["OPENAI_API_KEY"].val # env["OPENROUTER_API_KEY"].val
    /\ env["OPENAI_API_BASE"] = Unset /\ IsUsable("OPENROUTER_BASE_URL")
    /\ env["OPENAI_MODEL"] = NotUnicode /\ IsUsable("OPENROUTER_MODEL")
    /\ cfg.model = env["OPENROUTER_MODEL"].val

\* C21: whenever the loop awaits client.publish the request channel has a
\* free slot, so the publish returns and the loop polls again.
C21_PublishFindsSlot == pc = "publish" => Len(requests) < RequestCap

\* C22: the history starts empty; no step makes it shorter or more than one
\* message longer, a step that changes it pushes one message at the back
\* (dropping the oldest when it was full), and a full history stays full;
\* at every poll after an inbound-topic message the length is the length at
\* the poll that returned the message plus 1 (completion failed) or plus 2
\* (completion succeeded), capped at MAX_CONVERSATION_HISTORY.
C22_LengthNeverDecreases ==
    /\ Len(conversation_history) = 0
    /\ [](pc = "poll" /\ iter.outcome \in {"ok", "err"}
            => /\ Len(conversation_history) >= iter.len0
               /\ Len(conversation_history)
                     = Min(iter.len0 + (IF iter.outcome = "ok" THEN 2 ELSE 1),
                           MAX_CONVERSATION_HISTORY))
    /\ [][ /\ Len(conversation_history') >= Len(conversation_history)
           /\ Len(conversation_history') <= Len(conversation_history) + 1
           /\ Len(conversation_history) = MAX_CONVERSATION_HISTORY
                 => Len(conversation_history') = MAX_CONVERSATION_HISTORY
           /\ conversation_history' # conversation_history
                 => /\ pc \in {"poll", "api"}
                    /\ \E m \in {Last(conversation_history')} :
                          \/ conversation_history' = Append(conversation_history, m)
                          \/ /\ Len(conversation_history) = MAX_CONVERSATION_HISTORY
                             /\ conversation_history'
                                   = Tail(Append(conversation_history, m)) ]_vars

C22_Witness ==
    /\ pc = "poll"
    /\ iter.outcome = "ok"
    /\ iter.len0 = MAX_CONVERSATION_HISTORY - 1
    /\ Len(conversation_history) = MAX_CONVERSATION_HISTORY
    /\ iter.turns >= 6

====
